---------------------------- MODULE Spec2Model ----------------------------
(***************************************************************************)
(* Model of automod's directory scan (src/lib.rs): the `dir!` macro calls  *)
(* source_files(dir, dir), which walks the directory tree, derives one     *)
(* (path, name) pair per module, sorts each call's list, and the macro     *)
(* rewrites hyphens in the names when it builds the identifiers.           *)
(*                                                                         *)
(* Strings are sequences of byte values, so that file names, extensions,   *)
(* joins, replacements and the byte-wise order of String are computed and  *)
(* not assumed.                                                            *)
(***************************************************************************)
EXTENDS Integers, Sequences, FiniteSets, TLC

VARIABLES
    fs,        \* the directory tree: relative path (sequence of names) -> kind
    pc,        \* "setup" (tree being populated), "scan" (macro running), "done"
    stack,     \* active source_files calls, innermost last
    returned,  \* the Vec most recently returned by a source_files call
    outcome,   \* "none", "ok" (macro expanded), "panic" (an unwrap() failed)
    expanded,  \* the macro's output: sequence of [path, ident]
    runs       \* outcomes of the completed expansions over this tree

vars == <<fs, pc, stack, returned, outcome, expanded, runs>>

---------------------------------------------------------------------------
(* Bounds *)

MaxNodes == 4   \* entries created below the scanned directory
MaxRuns == 2    \* expansions of the macro over the same tree

---------------------------------------------------------------------------
(* Bytes and names *)

Dash == 45
Dot == 46
Slash == 47
Underscore == 95

ModRs == <<109, 111, 100, 46, 114, 115>>     \* "mod.rs"
LibRs == <<108, 105, 98, 46, 114, 115>>      \* "lib.rs"
MainRs == <<109, 97, 105, 110, 46, 114, 115>> \* "main.rs"
Rs == <<114, 115>>                            \* "rs"

A_Rs == <<97, 46, 114, 115>>              \* "a.rs"
A_B_Rs == <<97, 45, 98, 46, 114, 115>>    \* "a-b.rs"
AuB_Rs == <<97, 95, 98, 46, 114, 115>>    \* "a_b.rs"
B_Txt == <<98, 46, 116, 120, 116>>        \* "b.txt"
DirA == <<97>>                            \* "a"
DirA_B == <<97, 45, 98>>                  \* "a-b"
Fifo_Rs == <<102, 46, 114, 115>>          \* "f.rs", created as a special file

TopDir == <<114>>                         \* the scanned directory, "r"

FileNames == {A_Rs, A_B_Rs, AuB_Rs, B_Txt, ModRs, LibRs, MainRs}
DirNames == {DirA, DirA_B}
OtherNames == {Fifo_Rs}

---------------------------------------------------------------------------
(* std::path and String operations used by the scan *)

\* Position of the last '.' of a file name, 0 when there is none.
LastDot(name) ==
    LET ds == {i \in 1..Len(name) : name[i] = Dot}
    IN  IF ds = {} THEN 0 ELSE CHOOSE i \in ds : \A j \in ds : j <= i

\* Path::extension of a one-component path: {} is None, {e} is Some(e).
Extension(name) ==
    LET i == LastDot(name)
    IN  IF i <= 1 THEN {} ELSE {SubSeq(name, i + 1, Len(name))}

\* Path::file_stem of a one-component path.
FileStem(name) ==
    LET i == LastDot(name)
    IN  IF i <= 1 THEN name ELSE SubSeq(name, 1, i - 1)

\* Path::with_extension(""): the last component loses its extension.
WithExtensionEmpty(rel) ==
    IF rel = <<>> THEN rel
    ELSE [rel EXCEPT ![Len(rel)] = FileStem(rel[Len(rel)])]

\* [&str]::join(sep)
RECURSIVE Join(_, _)
Join(comps, sep) ==
    IF comps = <<>> THEN <<>>
    ELSE IF Len(comps) = 1 THEN comps[1]
    ELSE comps[1] \o <<sep>> \o Join(Tail(comps), sep)

\* Path::join on the path string: the directory's string, '/', the name.
PathJoin(base, name) == base \o <<Slash>> \o name

\* Variant: the file name joined to the top directory, the directories between dropped.
PathStringFlat(rel) ==
    IF rel = <<>> THEN TopDir ELSE PathJoin(TopDir, rel[Len(rel)])

\* The string of the path of `rel` as the scan builds it from its argument.
RECURSIVE PathString(_)
PathString(rel) ==
    IF rel = <<>> THEN TopDir
    ELSE PathJoin(PathString(SubSeq(rel, 1, Len(rel) - 1)), rel[Len(rel)])

\* Variant: the name taken as it is, hyphens kept.
KeepHyphens(name) == name

\* name.replace('-', "_")
ReplaceHyphens(name) ==
    [i \in 1..Len(name) |-> IF name[i] = Dash THEN Underscore ELSE name[i]]

\* Ord for String: byte-wise lexicographic, a proper prefix first.
RECURSIVE StrLess(_, _)
StrLess(s, t) ==
    IF t = <<>> THEN FALSE
    ELSE IF s = <<>> THEN TRUE
    ELSE IF s[1] # t[1] THEN s[1] < t[1]
    ELSE StrLess(Tail(s), Tail(t))

\* Variant: the pair compared by its second component first.
PairLessByName(p, q) ==
    \/ StrLess(p[2], q[2])
    \/ p[2] = q[2] /\ StrLess(p[1], q[1])

\* Ord for (String, String): first component, then second.
PairLess(p, q) ==
    \/ StrLess(p[1], q[1])
    \/ p[1] = q[1] /\ StrLess(p[2], q[2])

\* Variant: the element put in front, whatever follows.
InsertFront(p, s) == <<p>> \o s

\* One element put at its place in a sorted sequence.
RECURSIVE Insert(_, _)
Insert(p, s) ==
    IF s = <<>> THEN <<p>>
    ELSE IF PairLess(s[1], p) THEN <<s[1]>> \o Insert(p, Tail(s))
    ELSE <<p>> \o s

\* Variant: the list left in the order it was filled.
Unsorted(s) == s

\* paths.sort()
RECURSIVE SortPairs(_)
SortPairs(s) ==
    IF s = <<>> THEN <<>>
    ELSE Insert(s[1], SortPairs(Tail(s)))

---------------------------------------------------------------------------
(* The filesystem as the scan sees it *)

Parent(rel) == SubSeq(rel, 1, Len(rel) - 1)

\* Names of the entries fs::read_dir yields for the directory `rel`.
Entries(rel) ==
    {p[Len(p)] : p \in {q \in DOMAIN fs : Len(q) = Len(rel) + 1 /\ Parent(q) = rel}}

\* read_dir(current_dir) is Err: the directory cannot be opened.
ReadDirFails(rel) == fs[rel] = "noaccess"

\* Variant: mod.rs looked for in the top directory instead of the entry.
HasModFileInTop(rel) ==
    /\ fs[rel] = "dir"
    /\ <<ModRs>> \in DOMAIN fs
    /\ fs[<<ModRs>>] = "file"

\* mod_file.exists() && mod_file.is_file(); a failing stat makes exists() false.
HasModFile(rel) ==
    /\ fs[rel] = "dir"
    /\ (rel \o <<ModRs>>) \in DOMAIN fs
    /\ fs[rel \o <<ModRs>>] = "file"

\* entry.file_type().is_dir() and .is_file()
IsDir(rel) == fs[rel] \in {"dir", "noaccess"}
IsFile(rel) == fs[rel] = "file"

\* Variant: main.rs forgotten among the reserved names.
IsReservedNoMain(name) == name = ModRs \/ name = LibRs

\* file_name == "mod.rs" || file_name == "lib.rs" || file_name == "main.rs"
IsReserved(name) == name = ModRs \/ name = LibRs \/ name = MainRs

\* path.extension() == Some(OsStr::new("rs"))
HasRsExtension(name) == Extension(name) = {Rs}

\* Variant: the prefix stripped is the current directory, not top_dir.
EntryNameFromCurrent(rel) == Join(WithExtensionEmpty(<<rel[Len(rel)]>>), Underscore)

\* The name of an entry: its path relative to top_dir, the extension removed,
\* the components joined with '_'.
EntryName(rel) == Join(WithExtensionEmpty(rel), Underscore)

---------------------------------------------------------------------------
(* Initial state and the environment that populates the tree *)

Init ==
    /\ fs \in {(<<>> :> "dir"), (<<>> :> "noaccess")}
    /\ pc = "setup"
    /\ stack = <<>>
    /\ returned = <<>>
    /\ outcome = "none"
    /\ expanded = <<>>
    /\ runs = <<>>

NodeCount == Cardinality(DOMAIN fs) - 1

Create(parent, name, kind) ==
    /\ pc = "setup"
    /\ NodeCount < MaxNodes
    /\ fs[parent] = "dir"
    /\ (parent \o <<name>>) \notin DOMAIN fs
    /\ fs' = fs @@ ((parent \o <<name>>) :> kind)
    /\ UNCHANGED <<pc, stack, returned, outcome, expanded, runs>>

CreateFile == \E parent \in DOMAIN fs, name \in FileNames : Create(parent, name, "file")

CreateDir == \E parent \in DOMAIN fs, name \in DirNames : Create(parent, name, "dir")

CreateNoAccessDir ==
    \E parent \in DOMAIN fs, name \in DirNames : Create(parent, name, "noaccess")

CreateSpecial == \E parent \in DOMAIN fs, name \in OtherNames : Create(parent, name, "other")

---------------------------------------------------------------------------
(* The scan *)

Frame(rel) == [cur |-> rel, todo |-> Entries(rel), paths |-> <<>>]

Top == stack[Len(stack)]

SetTop(f) == [stack EXCEPT ![Len(stack)] = f]

\* An unwrap() on an Err: the expansion panics, nothing is produced.
Panic ==
    /\ pc' = "done"
    /\ stack' = <<>>
    /\ outcome' = "panic"
    /\ expanded' = <<>>
    /\ runs' = Append(runs, [outcome |-> "panic", expanded |-> <<>>])
    /\ UNCHANGED <<fs, returned>>

\* dir!: source_files(&dir, &dir) is called and opens the directory.
Invoke ==
    /\ pc \in {"setup", "done"}
    /\ Len(runs) < MaxRuns
    /\ IF ReadDirFails(<<>>)
       THEN Panic
       ELSE /\ pc' = "scan"
            /\ stack' = <<Frame(<<>>)>>
            /\ outcome' = "none"
            /\ expanded' = <<>>
            /\ UNCHANGED <<fs, returned, runs>>

\* One iteration of the loop on a regular file.
VisitFile ==
    /\ pc = "scan"
    /\ \E name \in Top.todo :
        LET rel == Top.cur \o <<name>>
            emit == ~IsReserved(name) /\ HasRsExtension(name)
            paths == IF emit
                     THEN Append(Top.paths, <<PathString(rel), EntryName(rel)>>)
                     ELSE Top.paths
        IN  /\ ~IsDir(rel)
            /\ IsFile(rel)
            /\ stack' = SetTop([Top EXCEPT !.todo = @ \ {name}, !.paths = paths])
    /\ UNCHANGED <<fs, pc, returned, outcome, expanded, runs>>

\* One iteration on an entry that is neither a directory nor a regular file.
VisitOther ==
    /\ pc = "scan"
    /\ \E name \in Top.todo :
        LET rel == Top.cur \o <<name>>
        IN  /\ ~IsDir(rel)
            /\ ~IsFile(rel)
            /\ stack' = SetTop([Top EXCEPT !.todo = @ \ {name}])
    /\ UNCHANGED <<fs, pc, returned, outcome, expanded, runs>>

\* One iteration on a directory that holds a mod.rs file.
VisitModDir ==
    /\ pc = "scan"
    /\ \E name \in Top.todo :
        LET rel == Top.cur \o <<name>>
            pair == <<PathJoin(PathString(rel), ModRs), EntryName(rel)>>
        IN  /\ IsDir(rel)
            /\ HasModFile(rel)
            /\ stack' = SetTop([Top EXCEPT !.todo = @ \ {name},
                                           !.paths = Append(@, pair)])
    /\ UNCHANGED <<fs, pc, returned, outcome, expanded, runs>>

\* One iteration on a directory without mod.rs: the recursive call starts.
VisitPlainDir ==
    /\ pc = "scan"
    /\ \E name \in Top.todo :
        LET rel == Top.cur \o <<name>>
        IN  /\ IsDir(rel)
            /\ ~HasModFile(rel)
            /\ IF ReadDirFails(rel)
               THEN Panic
               ELSE /\ stack' = Append(SetTop([Top EXCEPT !.todo = @ \ {name}]),
                                       Frame(rel))
                    /\ UNCHANGED <<fs, pc, returned, outcome, expanded, runs>>

\* A recursive call returns: its list is sorted and appended to the caller's.
ReturnNested ==
    /\ pc = "scan"
    /\ Len(stack) > 1
    /\ Top.todo = {}
    /\ LET sorted == SortPairs(Top.paths)
           caller == stack[Len(stack) - 1]
       IN  /\ returned' = sorted
           /\ stack' = [SubSeq(stack, 1, Len(stack) - 1)
                           EXCEPT ![Len(stack) - 1] =
                               [caller EXCEPT !.paths = @ \o sorted]]
    /\ UNCHANGED <<fs, pc, outcome, expanded, runs>>

\* The macro's map over the returned pairs.
Expand(pairs) ==
    [i \in 1..Len(pairs) |->
        [path |-> pairs[i][1], ident |-> ReplaceHyphens(pairs[i][2])]]

\* The outermost call returns and the macro builds its items.
ReturnTop ==
    /\ pc = "scan"
    /\ Len(stack) = 1
    /\ Top.todo = {}
    /\ LET sorted == SortPairs(Top.paths)
       IN  /\ returned' = sorted
           /\ expanded' = Expand(sorted)
           /\ runs' = Append(runs, [outcome |-> "ok", expanded |-> Expand(sorted)])
    /\ stack' = <<>>
    /\ outcome' = "ok"
    /\ pc' = "done"
    /\ UNCHANGED fs

Next ==
    \/ CreateFile
    \/ CreateDir
    \/ CreateNoAccessDir
    \/ CreateSpecial
    \/ Invoke
    \/ VisitFile
    \/ VisitOther
    \/ VisitModDir
    \/ VisitPlainDir
    \/ ReturnNested
    \/ ReturnTop

Spec == Init /\ [][Next]_vars
---------------------------------------------------------------------------
(* Vocabulary of the properties, stated on the tree and on the output *)

Done == pc = "done"
Expanded == pc = "done" /\ outcome = "ok"

Refs == 1..Len(expanded)

IsPrefixOf(s, t) == Len(s) <= Len(t) /\ SubSeq(t, 1, Len(s)) = s

EndsWith(s, t) == Len(t) <= Len(s) /\ SubSeq(s, Len(s) - Len(t) + 1, Len(s)) = t

\* The path of a node of the tree, written out from the scanned directory.
RootedPath(rel) == Join(<<TopDir>> \o rel, Slash)

\* The directory holds a regular file named mod.rs.
ContainsModRs(d) ==
    \E f \in DOMAIN fs : Parent(f) = d /\ f[Len(f)] = ModRs /\ fs[f] = "file" /\ Len(f) = Len(d) + 1

IsDirectory(d) == d \in DOMAIN fs /\ fs[d] \in {"dir", "noaccess"}

\* The scan lists this directory: the top one, or a directory without mod.rs
\* listed in a directory the scan lists.
RECURSIVE Listed(_)
Listed(d) ==
    \/ d = <<>>
    \/ /\ d # <<>>
       /\ IsDirectory(d)
       /\ ~ContainsModRs(d)
       /\ Listed(Parent(d))

\* A directory with mod.rs that the scan meets.
MarkerDirs == {d \in DOMAIN fs : d # <<>> /\ IsDirectory(d) /\ ContainsModRs(d) /\ Listed(Parent(d))}

DotRs == <<Dot>> \o Rs

\* A regular .rs file, not mod.rs, lib.rs or main.rs, that the scan meets.
Qualifying(f) ==
    /\ f # <<>>
    /\ fs[f] = "file"
    /\ Listed(Parent(f))
    /\ Len(f[Len(f)]) > 3
    /\ EndsWith(f[Len(f)], DotRs)
    /\ f[Len(f)] \notin {ModRs, LibRs, MainRs}

QualifyingFiles == {f \in DOMAIN fs : Qualifying(f)}

\* The name with everything from its last '.' on removed.
DropExtension(name) ==
    IF \E i \in 2..Len(name) : name[i] = Dot
    THEN SubSeq(name, 1, (CHOOSE i \in 2..Len(name) :
                             name[i] = Dot /\ \A j \in (i + 1)..Len(name) : name[j] # Dot) - 1)
    ELSE name

\* The relative path, extension stripped, its components joined by '_'.
RECURSIVE Flat(_)
Flat(rel) ==
    IF Len(rel) = 1 THEN DropExtension(rel[1])
    ELSE rel[1] \o <<Underscore>> \o Flat(Tail(rel))

HasHyphen(rel) == \E k \in 1..Len(rel) : \E c \in 1..Len(rel[k]) : rel[k][c] = Dash

\* A directory of the tree that cannot be opened lies on the scan's way.
IoFailureOnTheWay == \E d \in DOMAIN fs : fs[d] = "noaccess" /\ (d = <<>> \/ Listed(Parent(d)))

---------------------------------------------------------------------------
(* C1: a scan that finds no module at all fails with the "empty" error kind
   ("no source files found") instead of producing an empty output. *)
C1_EmptyScanFails ==
    (Done /\ ~IoFailureOnTheWay /\ QualifyingFiles = {} /\ MarkerDirs = {})
        => outcome = "empty"

(* C2: when a filesystem operation of the scan fails, at any depth, the scan
   ends with an I/O error value and no partial list, not with a fatal abort. *)
C2_IoFailureIsErrorValue ==
    (Done /\ IoFailureOnTheWay) => (outcome = "io" /\ expanded = <<>>)
---------------------------------------------------------------------------
(* References of the output, looked up by the node they are about *)

\* The references whose path lies below the directory d.
RefsBelow(d) == {i \in Refs : IsPrefixOf(RootedPath(d) \o <<Slash>>, expanded[i].path)}

\* The references whose path is the path of the node f.
RefsAt(f) == {i \in Refs : expanded[i].path = RootedPath(f)}

\* The pairs of the returned list whose path is the path of the node f.
PairsAt(f) == {i \in 1..Len(returned) : returned[i][1] = RootedPath(f)}

ToUnderscores(name) ==
    [k \in 1..Len(name) |-> IF name[k] = Dash THEN Underscore ELSE name[k]]

(* C3: a directory with mod.rs that the scan meets gives exactly one reference,
   with path D/mod.rs and D's own identifier, and nothing else below D. *)
C3_MarkerDirIsOneModule ==
    Expanded =>
        \A d \in MarkerDirs :
            /\ Cardinality(RefsBelow(d)) = 1
            /\ \A i \in RefsBelow(d) :
                /\ expanded[i].path = RootedPath(d \o <<ModRs>>)
                /\ expanded[i].ident = ToUnderscores(Flat(d))

C3_Witness ==
    /\ Expanded
    /\ \E d \in MarkerDirs :
        /\ Len(d) = 2
        /\ \E f \in DOMAIN fs : Len(f) = 3 /\ Parent(f) = d /\ f[3] = A_Rs
        /\ RefsBelow(d) # {}

(* C4: a directory without mod.rs is recursed into with the same root: each
   qualifying .rs file inside it has exactly one pair in the scan's list, named
   by the components of its path relative to the root, extension stripped,
   joined by '_', at any depth. *)
C4_PlainDirIsRecursed ==
    Expanded =>
        \A f \in QualifyingFiles :
            Len(f) >= 2 =>
                /\ Cardinality(PairsAt(f)) = 1
                /\ \A i \in PairsAt(f) : returned[i][2] = Flat(f)

C4_Witness ==
    /\ Expanded
    /\ \E f \in QualifyingFiles :
        /\ Len(f) = 3
        /\ PairsAt(f) # {}
        /\ returned[CHOOSE i \in PairsAt(f) : TRUE][2]
               = f[1] \o <<Underscore>> \o f[2] \o <<Underscore>> \o DirA

(* C5: a regular file named lib.rs or main.rs, or without the .rs extension, is
   never in the output; a mod.rs is there only as the file of the directory
   that holds it, under that directory's identifier. *)
C5_ReservedAndForeignSkipped ==
    Expanded =>
        \A f \in DOMAIN fs :
            (f # <<>> /\ fs[f] = "file") =>
                /\ (f[Len(f)] \in {LibRs, MainRs} \/ ~EndsWith(f[Len(f)], DotRs))
                       => RefsAt(f) = {}
                /\ f[Len(f)] = ModRs =>
                       \A i \in RefsAt(f) :
                           /\ Parent(f) \in MarkerDirs
                           /\ expanded[i].ident = ToUnderscores(Flat(Parent(f)))

C5_Witness ==
    /\ Expanded
    /\ Len(expanded) = 1
    /\ \E f, h, m \in DOMAIN fs :
        /\ Len(f) = 1 /\ f[1] = MainRs /\ fs[f] = "file"
        /\ Len(h) = 1 /\ h[1] = B_Txt /\ fs[h] = "file"
        /\ Len(m) = 2 /\ m[2] = ModRs /\ RefsAt(m) # {}

(* C6: the output does not depend on the order in which directories are
   listed: every expansion over the same tree ends the same way with the same
   sequence of (path, identifier). *)
C6_OrderIndependent ==
    \A i, j \in 1..Len(runs) : runs[i] = runs[j]

C6_Witness ==
    /\ Len(runs) = 2
    /\ runs[1].outcome = "ok"
    /\ Len(runs[1].expanded) >= 3
    /\ \E d \in DOMAIN fs : d # <<>> /\ RefsBelow(d) # {}

(* C7: the identifiers of the references of one scan are pairwise distinct. *)
C7_IdentifiersDistinct ==
    Expanded => \A i, j \in Refs : i # j => expanded[i].ident # expanded[j].ident

(* C7, amended: the paths of the references of one scan are pairwise distinct
   (two references may carry the same identifier). *)
C7_PathsDistinct ==
    Expanded => \A i, j \in Refs : i # j => expanded[i].path # expanded[j].path

C7_Witness ==
    /\ Expanded
    /\ \E i, j \in Refs :
        /\ i # j
        /\ expanded[i].ident = expanded[j].ident
        /\ expanded[i].path # expanded[j].path

(* C8: a reference whose relative path has hyphens carries the '_'-joined,
   extension-stripped relative path with each hyphen turned into '_' and no
   other character changed. *)
C8_HyphensRewritten ==
    Expanded =>
        /\ \A f \in QualifyingFiles :
               HasHyphen(f) =>
                   /\ RefsAt(f) # {}
                   /\ \A i \in RefsAt(f) :
                       /\ Len(expanded[i].ident) = Len(Flat(f))
                       /\ \A k \in 1..Len(Flat(f)) :
                           expanded[i].ident[k] =
                               IF Flat(f)[k] = Dash THEN Underscore ELSE Flat(f)[k]
        /\ \A d \in MarkerDirs :
               HasHyphen(d) =>
                   /\ RefsAt(d \o <<ModRs>>) # {}
                   /\ \A i \in RefsAt(d \o <<ModRs>>) :
                       /\ Len(expanded[i].ident) = Len(Flat(d))
                       /\ \A k \in 1..Len(Flat(d)) :
                           expanded[i].ident[k] =
                               IF Flat(d)[k] = Dash THEN Underscore ELSE Flat(d)[k]

C8_Witness ==
    /\ Expanded
    /\ \E f \in QualifyingFiles :
        /\ Len(f) = 2
        /\ f[1] = DirA_B
        /\ f[2] = A_B_Rs
        /\ RefsAt(f) # {}
    /\ \E d \in MarkerDirs : HasHyphen(d) /\ RefsAt(d \o <<ModRs>>) # {}

(* C9: the references are in lexicographic order of their identifiers. *)
C9_SortedByIdentifier ==
    Expanded =>
        \A i, j \in Refs : i < j => ~StrLess(expanded[j].ident, expanded[i].ident)

(* C9, amended: the references are in strictly increasing lexicographic order
   of their paths, which is not always the order of their identifiers. *)
C9_SortedByPath ==
    Expanded =>
        \A i, j \in Refs : i < j => StrLess(expanded[i].path, expanded[j].path)

C9_Witness ==
    /\ Expanded
    /\ Len(expanded) >= 2
    /\ \E i, j \in Refs :
        /\ i < j
        /\ StrLess(expanded[j].ident, expanded[i].ident)
        /\ StrLess(expanded[i].path, expanded[j].path)

(* C10: the list every call of the scan returns, nested or outermost, is in
   non-decreasing order of the (path, name) pair. *)
C10_EveryReturnSorted ==
    \A i, j \in 1..Len(returned) :
        i < j =>
            \/ StrLess(returned[i][1], returned[j][1])
            \/ returned[i][1] = returned[j][1] /\ ~StrLess(returned[j][2], returned[i][2])

\* A nested call has returned two pairs into a caller that holds a pair of its own.
C10_WitnessNested ==
    /\ pc = "scan"
    /\ Len(returned) >= 2
    /\ Len(stack) = 1
    /\ Len(Top.paths) >= 3
    /\ ~(\A i, j \in 1..Len(Top.paths) : i < j => PairLess(Top.paths[i], Top.paths[j]))

=============================================================================
